---- MODULE Spec2Model ----
(***************************************************************************)
(* Model of backend/aegis/bot/runner.py: BotRunner (start, stop, the two   *)
(* _run_*_bot supervised coroutines) driven by main() on one asyncio event *)
(* loop.  One action is one uninterrupted run of a coroutine between two   *)
(* suspension points (await), which is the atomicity asyncio gives.  The   *)
(* order in which the loop runs the callbacks that are ready is left open. *)
(* The model covers the lifetime of main(); once it returned, asyncio.run  *)
(* only lets the tasks that were cancelled unwind.                         *)
(*                                                                         *)
(* The service providers of backend/dependencies.py (get_*_service) are    *)
(* functions of the settings and of what the service constructors and      *)
(* health checks do; DepSpec applies them to every such input.             *)
(***************************************************************************)
EXTENDS Integers, FiniteSets, Sequences, TLC

\* ---------------------------------------------------------------- bounds
\* Highest task index per worker: task 0 is spawned by start(), task n+1 by
\* the restart of task n.  run() may crash only in tasks below this index.
MaxAttempt == 2
\* Number of termination signals (SIGINT / SIGTERM) delivered at most.
MaxSignals == 1

\* ------------------------------------------------------- program constants
\* asyncio.sleep(30) in the crash handler.
RestartDelay == 30

Workers == {"telegram", "discord"}
TaskIds == 0..MaxAttempt
\* self.telegram_task = None / self.discord_task = None
NoTask == -1
\* stop() invocation 0 is the one in main()'s finally block; 1..MaxSignals are
\* the tasks created by the signal handler lambda.
MainStop == 0
StopIds == 0..MaxSignals

VARIABLES
    enable,            \* settings.enable_telegram_bot / enable_discord_bot
    token,             \* settings.telegram_bot_token / discord_bot_token is truthy
    running,           \* BotRunner.running
    bot_task,          \* BotRunner.telegram_task / discord_task: NoTask or a task index
    tstate,            \* state of every asyncio task running _run_*_bot
    exit,              \* how start_*_bot() ended in that task
    cancelReq,         \* number of Task.cancel() calls that reached the unfinished task
    sleepLeft,         \* time left of the task's asyncio.sleep(30)
    sinceCrash,        \* time elapsed since the task's run() raised, capped at 30
    mainpc,            \* position of main()
    startExc,          \* what runner.start() raised into main(), "none" if nothing
    handlers,          \* add_signal_handler() has been executed
    stoppc,            \* position of every stop() invocation
    stopCalls,         \* calls of stop_telegram_bot / stop_discord_bot per invocation
    stopFault,         \* that call raised an Exception
    svcCtor,           \* BlockfrostService() / KoiosService(): "ok" or "raise"
    svcHealth,         \* await service.health_check(): "true", "false" or "raise"
    apiKey,            \* settings.openai_api_key / anthropic_api_key is truthy
    llmCtor,           \* OpenAIService(...) / ClaudeService(...): "ok" or "raise"
    depCall,           \* the provider a request is resolving, "idle" if none
    depResult          \* what that provider returned or raised

\* What dependencies.py reads and writes.
depVars == <<svcCtor, svcHealth, apiKey, llmCtor, depCall, depResult>>

vars == <<enable, token, running, bot_task, tstate, exit, cancelReq, sleepLeft,
          sinceCrash, mainpc, startExc, handlers, stoppc, stopCalls, stopFault,
          depVars>>

\* What no step of the bot runner writes.
cfgVars == <<enable, token, depVars>>
taskVars == <<tstate, exit, sleepLeft, sinceCrash>>
stopVars == <<stoppc, stopCalls, stopFault>>

\* ----------------------------------------------------------------- helpers
\* An asyncio task that exists and is not done().
Live(w, n) == tstate[w][n] \in {"created", "running", "cooldown"}

\* The task is suspended in an asyncio.sleep that has not been cancelled.
Sleeping(w, n) == tstate[w][n] = "cooldown" /\ cancelReq[w][n] = 0

\* A blocking wait (time.sleep) in the crash handler: the event loop is held.
SleepHoldsLoopBlocking == TRUE

\* `await asyncio.sleep(30)` suspends the task and gives the loop back.
SleepHoldsLoop == FALSE

\* The event loop is held by a wait that has not elapsed.
LoopHeld ==
    /\ SleepHoldsLoop
    /\ \E w \in Workers, n \in TaskIds : Sleeping(w, n) /\ sleepLeft[w][n] > 0

\* main() is suspended in an await: the event loop runs the other callbacks.
LoopRuns == mainpc \in {"gather", "stopping"} /\ ~LoopHeld

\* The coroutine body has begun, i.e. start_*_bot() was invoked in task n.
Started(w, n) == tstate[w][n] = "running" \/ exit[w][n] # "none"

\* `settings.enable_telegram_bot` alone, the token is not looked at.
EnabledFlagOnly(w) == enable[w]

\* `settings.enable_telegram_bot and settings.telegram_bot_token`
Enabled(w) == enable[w] /\ token[w]

\* The `tasks` list built by start(): the tasks start() itself created.
StartTasks == {w \in Workers : Enabled(w)}

\* asyncio.gather(*tasks, return_exceptions=True) completes when every task of
\* the list passed to it is done; a task created later is not in the list.
GatherDone == \A w \in StartTasks : tstate[w][0] \in {"done", "cancelled", "failed"}

\* return_exceptions=True: the exception of a task is a result, not raised.
ReturnExceptions == TRUE

\* gather raises the exception of a task into start() and so into main().
GatherRaises == ~ReturnExceptions /\ \E w \in StartTasks : tstate[w][0] = "failed"

\* A crash handler that catches nothing: the fault ends the task.
FaultUncaught == FALSE

\* `except Exception as e:` around `await start_*_bot()` catches the fault.
FaultCaught == TRUE

\* `self.running` is left as it is when stop() begins.
RunningInStopKept == running

\* `self.running = False`, the first statement of stop().
RunningInStop == FALSE

\* `self.running = True` in __init__.
InitRunningTrue == TRUE

\* `self.running = False` in __init__.
InitRunning == FALSE

\* main() calls stop() only when start() returned normally (no `finally`).
CleanupOnReturnOnly(exc) == exc = "none"

\* `finally: await runner.stop()` runs however start() ended.
CleanupOn(exc) == TRUE

\* A stop() that does not cancel the task handles.
CancelTasksOmitted == cancelReq

\* A stop() that cancels self.telegram_task and forgets self.discord_task.
CancelTasksTelegramOnly ==
    [w \in Workers |-> [n \in TaskIds |->
        IF w = "telegram" /\ bot_task[w] = n /\ Live(w, n) THEN cancelReq[w][n] + 1
                                                          ELSE cancelReq[w][n]]]

\* `if self.telegram_task: self.telegram_task.cancel()` and the same for
\* discord: cancel() has an effect only on a task that is not done.
CancelTasks ==
    [w \in Workers |-> [n \in TaskIds |->
        IF bot_task[w] = n /\ Live(w, n) THEN cancelReq[w][n] + 1
                                         ELSE cancelReq[w][n]]]

\* Task.cancel() cancels the future the task waits on at once: a pending
\* asyncio.sleep of a cancelled task is dead from that moment.
CancelSleep(t) ==
    [w \in Workers |-> [n \in TaskIds |->
        IF bot_task[w] = n /\ Live(w, n) THEN 0 ELSE t[w][n]]]

\* Worker contract: start_*_bot() cancelled at its suspension point unwinds,
\* the CancelledError reaches the awaiting _run_*_bot coroutine.
RunOnCancel == "CancelledError"

\* except asyncio.CancelledError: log and swallow (no `raise`).
OnCancelledSwallowed == "done"

\* except asyncio.CancelledError: log; raise  -> the task ends cancelled.
OnCancelled == "cancelled"


\* The crash handler spawns the restart and also runs the bot again itself.
AfterRestartLoops == "running"

\* The coroutine returns after create_task(): the old task is done.
AfterRestart == "done"

\* create_task() without storing the result: the handle keeps the old task.
RestartHandleKept(w, n) == bot_task[w]

\* `self.telegram_task = asyncio.create_task(...)`: the handle is the new task.
RestartHandle(w, n) == n + 1

\* The crash handler sleeps whatever `self.running` is.
CoolDownAlways == TRUE

\* The first `if self.running:` (before the sleep) decides the cool-down.
CoolDownAfterCrash == running

\* The second `if self.running:` (after the sleep) decides the restart.
RestartAfterSleep == running

\* A stop() without the try / except: the fault leaves stop().
StopAborts(fault) == ~fault

\* try / except Exception around `await stop_*_bot()`: the fault is logged
\* and stop() goes on to the next statement.
StopContinues(fault) == TRUE

\* Number of signal-handler stop() tasks created so far.
Signals == Cardinality({s \in StopIds : s # MainStop /\ stoppc[s] # "idle"})

\* ------------------------------------------------------- dependencies.py
CardanoServices == {"blockfrost", "koios"}
LLMServices == {"openai", "claude"}
Providers == CardanoServices \cup LLMServices \cup {"primary"}

\* status.HTTP_503_SERVICE_UNAVAILABLE
HTTP_503_SERVICE_UNAVAILABLE == 503

\* A call that returned the service object.
Returns(svc) == [exc |-> "none", status |-> 0, detail |-> "", service |-> svc]

\* A call left by an exception; status and detail are those of an HTTPException.
Raises(e, st, det) == [exc |-> e, status |-> st, detail |-> det, service |-> ""]

HTTPException(det) == Raises("HTTPException", HTTP_503_SERVICE_UNAVAILABLE, det)

NoResult == Raises("none", 0, "")

\* detail= of the HTTPException raised in the `except Exception` clause.
Unavailable ==
    [p \in CardanoServices \cup LLMServices |->
        CASE p = "blockfrost" -> "Blockfrost service unavailable"
          [] p = "koios" -> "Koios service unavailable"
          [] p = "openai" -> "OpenAI service unavailable"
          [] p = "claude" -> "Claude service unavailable"]

\* detail= of the HTTPException raised when the API key is not set.
NotConfigured ==
    [p \in LLMServices |->
        CASE p = "openai" -> "OpenAI service not configured"
          [] p = "claude" -> "Claude service not configured"]

\* `except Exception as e:` catches every Exception, an HTTPException included
\* (HTTPException is a subclass of Exception), and raises a 503 with `det`.
ExceptException(o, det) == IF o.exc \in {"Exception", "HTTPException"}
                           THEN HTTPException(det) ELSE o

\* try body of get_blockfrost_service / get_koios_service: construct, await
\* health_check() (a false result is only logged), return the service.
CardanoBody(c) ==
    IF svcCtor[c] = "raise" \/ svcHealth[c] = "raise"
    THEN Raises("Exception", 0, "") ELSE Returns(c)

get_cardano_service(c) == ExceptException(CardanoBody(c), Unavailable[c])

get_blockfrost_service == get_cardano_service("blockfrost")

get_koios_service == get_cardano_service("koios")

\* try body of get_openai_service / get_claude_service: raise the "not
\* configured" HTTPException when the key is not set, else construct and return.
LLMBody(l) ==
    IF ~apiKey[l] THEN HTTPException(NotConfigured[l])
    ELSE IF llmCtor[l] = "raise" THEN Raises("Exception", 0, "")
    ELSE Returns(l)

get_llm_service(l) == ExceptException(LLMBody(l), Unavailable[l])

get_openai_service == get_llm_service("openai")

get_claude_service == get_llm_service("claude")

\* A provider that tries Koios first and Blockfrost second.
get_primary_koios_first ==
    IF get_koios_service.exc = "HTTPException"
    THEN IF get_blockfrost_service.exc = "HTTPException"
         THEN HTTPException("No Cardano service available")
         ELSE get_blockfrost_service
    ELSE get_koios_service

\* try get_blockfrost_service(); except HTTPException: try get_koios_service();
\* except HTTPException: raise 503 "No Cardano service available".
get_primary_cardano_service ==
    IF get_blockfrost_service.exc = "HTTPException"
    THEN IF get_koios_service.exc = "HTTPException"
         THEN HTTPException("No Cardano service available")
         ELSE get_koios_service
    ELSE get_blockfrost_service

Provide(p) ==
    CASE p = "blockfrost" -> get_blockfrost_service
      [] p = "koios" -> get_koios_service
      [] p = "openai" -> get_openai_service
      [] p = "claude" -> get_claude_service
      [] p = "primary" -> get_primary_cardano_service

\* No request is resolving a provider; every service is up and configured.
DepIdle ==
    /\ svcCtor = [c \in CardanoServices |-> "ok"]
    /\ svcHealth = [c \in CardanoServices |-> "true"]
    /\ apiKey = [l \in LLMServices |-> TRUE]
    /\ llmCtor = [l \in LLMServices |-> "ok"]
    /\ depCall = "idle"
    /\ depResult = NoResult

\* ----------------------------------------------------------------- Init
\* The runner after BotRunner() in main().
RunnerInit ==
    /\ running = InitRunning
    /\ bot_task = [w \in Workers |-> NoTask]
    /\ tstate = [w \in Workers |-> [n \in TaskIds |-> "none"]]
    /\ exit = [w \in Workers |-> [n \in TaskIds |-> "none"]]
    /\ cancelReq = [w \in Workers |-> [n \in TaskIds |-> 0]]
    /\ sleepLeft = [w \in Workers |-> [n \in TaskIds |-> 0]]
    /\ sinceCrash = [w \in Workers |-> [n \in TaskIds |-> 0]]
    /\ mainpc = "init"
    /\ startExc = "none"
    /\ handlers = FALSE
    /\ stoppc = [s \in StopIds |-> "idle"]
    /\ stopCalls = [s \in StopIds |-> [w \in Workers |-> 0]]
    /\ stopFault = [s \in StopIds |-> [w \in Workers |-> FALSE]]

Init ==
    /\ enable \in [Workers -> BOOLEAN]
    /\ token \in [Workers -> BOOLEAN]
    /\ RunnerInit
    /\ DepIdle

\* ----------------------------------------------------------------- stop()
\* stop() from its first line to the suspension inside stop_telegram_bot().
StopEnter(s) ==
    /\ running' = RunningInStop
    /\ cancelReq' = CancelTasks
    /\ sleepLeft' = CancelSleep(sleepLeft)
    /\ sinceCrash' = CancelSleep(sinceCrash)
    /\ stopCalls' = [stopCalls EXCEPT ![s]["telegram"] = @ + 1]
    /\ stoppc' = [stoppc EXCEPT ![s] = "in_telegram"]
    /\ UNCHANGED stopFault

\* stop_telegram_bot() returns or raises; stop() goes on to stop_discord_bot().
StopTelegramDone(s) ==
    /\ LoopRuns
    /\ stoppc[s] = "in_telegram"
    /\ \E fault \in BOOLEAN :
        /\ stopFault' = [stopFault EXCEPT ![s]["telegram"] = fault]
        /\ IF ~fault \/ StopContinues(fault)
           THEN /\ stopCalls' = [stopCalls EXCEPT ![s]["discord"] = @ + 1]
                /\ stoppc' = [stoppc EXCEPT ![s] = "in_discord"]
                /\ UNCHANGED mainpc
           ELSE /\ stoppc' = [stoppc EXCEPT ![s] = "raised"]
                /\ mainpc' = IF s = MainStop THEN "returned" ELSE mainpc
                /\ UNCHANGED stopCalls
    /\ UNCHANGED <<cfgVars, running, bot_task, taskVars, cancelReq, startExc, handlers>>

\* stop_discord_bot() returns or raises; stop() returns.  The stop() awaited
\* in main()'s finally block is the last statement of main().
StopDiscordDone(s) ==
    /\ LoopRuns
    /\ stoppc[s] = "in_discord"
    /\ \E fault \in BOOLEAN :
        /\ stopFault' = [stopFault EXCEPT ![s]["discord"] = fault]
        /\ stoppc' = [stoppc EXCEPT ![s] =
                        IF ~fault \/ StopContinues(fault) THEN "done" ELSE "raised"]
    /\ mainpc' = IF s = MainStop THEN "returned" ELSE mainpc
    /\ UNCHANGED <<cfgVars, running, bot_task, taskVars, cancelReq, startExc, handlers,
                   stopCalls>>

\* A termination signal arrives: the handler runs asyncio.create_task(self.stop()).
SignalHandler ==
    /\ mainpc \in {"gather", "stopping"}
    /\ handlers
    /\ \E s \in StopIds \ {MainStop} :
        /\ stoppc[s] = "idle"
        /\ \A r \in StopIds \ {MainStop} : r < s => stoppc[r] # "idle"
        /\ stoppc' = [stoppc EXCEPT ![s] = "created"]
    /\ UNCHANGED <<cfgVars, running, bot_task, taskVars, cancelReq, mainpc, startExc,
                   handlers, stopCalls, stopFault>>

\* First step of a stop() task created by the signal handler.
StopTaskStart(s) ==
    /\ LoopRuns
    /\ s # MainStop
    /\ stoppc[s] = "created"
    /\ StopEnter(s)
    /\ UNCHANGED <<cfgVars, bot_task, tstate, exit, mainpc, startExc, handlers>>

\* ------------------------------------------------------- main() and start()
\* main() up to the end of runner.start()'s synchronous part: start() sets
\* running, creates the tasks of the enabled bots and then either returns at
\* once (no task), or installs the signal handlers and awaits gather, or is
\* left by an exception (add_signal_handler failing, an interrupt).
MainStart ==
    /\ mainpc = "init"
    /\ running' = TRUE
    /\ bot_task' = [w \in Workers |-> IF Enabled(w) THEN 0 ELSE bot_task[w]]
    /\ tstate' = [w \in Workers |->
                    IF Enabled(w) THEN [tstate[w] EXCEPT ![0] = "created"] ELSE tstate[w]]
    /\ IF StartTasks = {}
       THEN /\ mainpc' = "start_returned"
            /\ UNCHANGED <<handlers, startExc>>
       ELSE \E exc \in {"none", "Exception", "KeyboardInterrupt"} :
            /\ startExc' = exc
            /\ handlers' = (exc = "none")
            /\ mainpc' = IF exc = "none" THEN "gather" ELSE "start_raised"
    /\ UNCHANGED <<cfgVars, exit, cancelReq, sleepLeft, sinceCrash, stopVars>>

\* main() after a start() that did not block: the except clauses only log,
\* the finally block runs `await runner.stop()`.
MainFinally ==
    /\ mainpc \in {"start_returned", "start_raised"}
    /\ IF CleanupOn(startExc)
       THEN /\ StopEnter(MainStop)
            /\ mainpc' = "stopping"
       ELSE /\ mainpc' = "returned"
            /\ UNCHANGED <<running, cancelReq, sleepLeft, sinceCrash, stopVars>>
    /\ UNCHANGED <<cfgVars, bot_task, tstate, exit, startExc, handlers>>

\* gather completes, start() returns, main() runs `await runner.stop()`.
MainCleanup ==
    /\ mainpc = "gather"
    /\ GatherDone
    /\ startExc' = IF GatherRaises THEN "WorkerFault" ELSE startExc
    /\ IF CleanupOn(startExc')
       THEN /\ StopEnter(MainStop)
            /\ mainpc' = "stopping"
       ELSE /\ mainpc' = "returned"
            /\ UNCHANGED <<running, cancelReq, sleepLeft, sinceCrash, stopVars>>
    /\ UNCHANGED <<cfgVars, bot_task, tstate, exit, handlers>>

\* ------------------------------------------------------- _run_*_bot tasks
\* First step of the task: `await start_*_bot()` begins and suspends.  A task
\* cancelled before its first step never executes its body.
RunBotStart(w, n) ==
    /\ LoopRuns
    /\ tstate[w][n] = "created"
    /\ cancelReq[w][n] = 0
    /\ tstate' = [tstate EXCEPT ![w][n] = "running"]
    /\ UNCHANGED <<cfgVars, running, bot_task, exit, cancelReq, sleepLeft, sinceCrash,
                   mainpc, startExc, handlers, stopVars>>

\* start_*_bot() raises an Exception: `except Exception`, first `if self.running`,
\* then the suspension in asyncio.sleep(30).
RunBotCrash(w, n) ==
    /\ LoopRuns
    /\ tstate[w][n] = "running"
    /\ cancelReq[w][n] = 0
    /\ n < MaxAttempt
    /\ exit' = [exit EXCEPT ![w][n] = "fault"]
    /\ IF FaultCaught /\ CoolDownAfterCrash
       THEN /\ tstate' = [tstate EXCEPT ![w][n] = "cooldown"]
            /\ sleepLeft' = [sleepLeft EXCEPT ![w][n] = RestartDelay]
       ELSE /\ tstate' = [tstate EXCEPT ![w][n] = IF FaultCaught THEN "done" ELSE "failed"]
            /\ UNCHANGED sleepLeft
    /\ sinceCrash' = [sinceCrash EXCEPT ![w][n] = 0]
    /\ UNCHANGED <<cfgVars, running, bot_task, cancelReq, mainpc, startExc, handlers,
                   stopVars>>

\* start_*_bot() returns normally: no except clause runs, the coroutine ends.
RunBotReturn(w, n) ==
    /\ LoopRuns
    /\ tstate[w][n] = "running"
    /\ cancelReq[w][n] = 0
    /\ exit' = [exit EXCEPT ![w][n] = "return"]
    /\ tstate' = [tstate EXCEPT ![w][n] = "done"]
    /\ UNCHANGED <<cfgVars, running, bot_task, cancelReq, sleepLeft, sinceCrash,
                   mainpc, startExc, handlers, stopVars>>

\* The sleep is over: second `if self.running`, create_task, end of coroutine.
RunBotWake(w, n) ==
    /\ LoopRuns
    /\ tstate[w][n] = "cooldown"
    /\ cancelReq[w][n] = 0
    /\ sleepLeft[w][n] = 0
    /\ IF RestartAfterSleep
       THEN /\ tstate' = [tstate EXCEPT ![w][n] = AfterRestart, ![w][n + 1] = "created"]
            /\ bot_task' = [bot_task EXCEPT ![w] = RestartHandle(w, n)]
       ELSE /\ tstate' = [tstate EXCEPT ![w][n] = "done"]
            /\ UNCHANGED bot_task
    /\ UNCHANGED <<cfgVars, running, exit, cancelReq, sleepLeft, sinceCrash,
                   mainpc, startExc, handlers, stopVars>>

\* The task is resumed with CancelledError at its suspension point (or before
\* its first step).
RunBotCancelled(w, n) ==
    /\ LoopRuns \/ mainpc = "returned"
    /\ Live(w, n)
    /\ cancelReq[w][n] > 0
    /\ exit' = [exit EXCEPT ![w][n] = IF tstate[w][n] = "running" THEN "cancel" ELSE @]
    /\ tstate' = [tstate EXCEPT ![w][n] =
                    IF tstate[w][n] = "running" /\ RunOnCancel = "CancelledError"
                    THEN OnCancelled ELSE "cancelled"]
    /\ UNCHANGED <<cfgVars, running, bot_task, cancelReq, sleepLeft, sinceCrash,
                   mainpc, startExc, handlers, stopVars>>

\* One unit of time passes for every pending asyncio.sleep.
Tick ==
    /\ mainpc \in {"gather", "stopping"}
    /\ \E w \in Workers, n \in TaskIds : Sleeping(w, n) /\ sleepLeft[w][n] > 0
    /\ sleepLeft' = [w \in Workers |-> [n \in TaskIds |->
                        IF Sleeping(w, n) /\ sleepLeft[w][n] > 0
                        THEN sleepLeft[w][n] - 1 ELSE sleepLeft[w][n]]]
    /\ sinceCrash' = [w \in Workers |-> [n \in TaskIds |->
                        IF Sleeping(w, n) /\ sinceCrash[w][n] < 30
                        THEN sinceCrash[w][n] + 1 ELSE sinceCrash[w][n]]]
    /\ UNCHANGED <<cfgVars, running, bot_task, tstate, exit, cancelReq, mainpc,
                   startExc, handlers, stopVars>>

Next ==
    \/ MainStart
    \/ MainFinally
    \/ MainCleanup
    \/ SignalHandler
    \/ \E s \in StopIds : StopTaskStart(s)
    \/ \E s \in StopIds : StopTelegramDone(s)
    \/ \E s \in StopIds : StopDiscordDone(s)
    \/ \E w \in Workers, n \in TaskIds : RunBotStart(w, n)
    \/ \E w \in Workers, n \in TaskIds : RunBotCrash(w, n)
    \/ \E w \in Workers, n \in TaskIds : RunBotReturn(w, n)
    \/ \E w \in Workers, n \in TaskIds : RunBotWake(w, n)
    \/ \E w \in Workers, n \in TaskIds : RunBotCancelled(w, n)
    \/ Tick

Spec == Init /\ [][Next]_vars

\* The event loop runs every callback that is ready: a cancelled task is
\* resumed, a stop() task is stepped, main() is woken when gather is done;
\* the stop procedures of the bots come back.
Fairness ==
    /\ WF_vars(MainFinally)
    /\ WF_vars(MainCleanup)
    /\ \A s \in StopIds :
        /\ WF_vars(StopTaskStart(s))
        /\ WF_vars(StopTelegramDone(s))
        /\ WF_vars(StopDiscordDone(s))
    /\ \A w \in Workers, n \in TaskIds : WF_vars(RunBotCancelled(w, n))

FairSpec == Spec /\ Fairness

\* start_*_bot(), resumed with the cancellation of stop(), raises an Exception
\* of its own while it unwinds instead of letting the CancelledError through:
\* `except Exception`, then the first `if self.running`.
RunBotCancelFault(w, n) ==
    /\ LoopRuns \/ mainpc = "returned"
    /\ tstate[w][n] = "running"
    /\ cancelReq[w][n] > 0
    /\ exit' = [exit EXCEPT ![w][n] = "fault"]
    /\ IF FaultCaught /\ CoolDownAfterCrash
       THEN /\ tstate' = [tstate EXCEPT ![w][n] = "cooldown"]
            /\ sleepLeft' = [sleepLeft EXCEPT ![w][n] = RestartDelay]
       ELSE /\ tstate' = [tstate EXCEPT ![w][n] = IF FaultCaught THEN "done" ELSE "failed"]
            /\ UNCHANGED sleepLeft
    /\ sinceCrash' = [sinceCrash EXCEPT ![w][n] = 0]
    /\ UNCHANGED <<cfgVars, running, bot_task, cancelReq, mainpc, startExc, handlers,
                   stopVars>>

\* The runner with workers that may fail while they are being cancelled.
NextFaulty ==
    \/ Next
    \/ \E w \in Workers, n \in TaskIds : RunBotCancelFault(w, n)

FaultySpec == Init /\ [][NextFaulty]_vars

\* ------------------------------------------- requests to dependencies.py
\* The API process: the bots are not configured, the services and the keys
\* are in any of their conditions.
DepInit ==
    /\ enable = [w \in Workers |-> FALSE]
    /\ token = [w \in Workers |-> FALSE]
    /\ RunnerInit
    /\ svcCtor \in [CardanoServices -> {"ok", "raise"}]
    /\ svcHealth \in [CardanoServices -> {"true", "false", "raise"}]
    /\ apiKey \in [LLMServices -> BOOLEAN]
    /\ llmCtor \in [LLMServices -> {"ok", "raise"}]
    /\ depCall = "idle"
    /\ depResult = NoResult

runnerVars == <<enable, token, running, bot_task, taskVars, cancelReq, mainpc,
                startExc, handlers, stopVars>>

\* A request resolves provider p: the provider returns or raises.
Resolve(p) ==
    /\ depCall = "idle"
    /\ depCall' = p
    /\ depResult' = Provide(p)
    /\ UNCHANGED <<runnerVars, svcCtor, svcHealth, apiKey, llmCtor>>

\* The request is answered (with the service or with the HTTP error).
Respond ==
    /\ depCall # "idle"
    /\ depCall' = "idle"
    /\ depResult' = NoResult
    /\ UNCHANGED <<runnerVars, svcCtor, svcHealth, apiKey, llmCtor>>

DepNext ==
    \/ \E p \in Providers : Resolve(p)
    \/ Respond

DepSpec == DepInit /\ [][DepNext]_vars

TypeOK ==
    /\ running \in BOOLEAN
    /\ depCall \in Providers \cup {"idle"}
    /\ depResult.exc \in {"none", "HTTPException"}
    /\ bot_task \in [Workers -> {NoTask} \cup TaskIds]
    /\ mainpc \in {"init", "start_returned", "start_raised", "gather", "stopping", "returned"}
    /\ startExc \in {"none", "Exception", "KeyboardInterrupt", "WorkerFault"}
    /\ \A w \in Workers, n \in TaskIds :
        /\ tstate[w][n] \in {"none", "created", "running", "cooldown", "done",
                            "cancelled", "failed"}
        /\ exit[w][n] \in {"none", "fault", "return", "cancel"}
        /\ sleepLeft[w][n] \in 0..RestartDelay
    /\ \A s \in StopIds :
        stoppc[s] \in {"idle", "created", "in_telegram", "in_discord", "done", "raised"}

\* ------------------------------------------------------------------ claims
\* Some stop() invocation has executed `self.running = False`.
StopHasRun == \E s \in StopIds : stoppc[s] \notin {"idle", "created"}

\* Number of tasks of worker w that exist.
NumTasks(w) == Cardinality({n \in TaskIds : tstate[w][n] # "none"})

\* Number of stop() invocations that called the stop procedure of worker w.
StopCallers(w) == Cardinality({s \in StopIds : stopCalls[s][w] > 0})

\* C1: a worker whose run() raised once and does not fail again is restarted
\* exactly once, not before 30 units have passed since the crash, and the
\* restarted run then stays Running while no termination signal arrives.
C1_RestartOnceThenRunning ==
    \A w \in Workers :
        (/\ Signals = 0
         /\ exit[w][0] = "fault"
         /\ tstate[w][1] # "none"
         /\ exit[w][1] \notin {"fault", "return"})
        => /\ sinceCrash[w][0] >= 30
           /\ \A n \in TaskIds : n > 1 => tstate[w][n] = "none"
           /\ Started(w, 1) => (tstate[w][1] = "running" /\ cancelReq[w][1] = 0)

\* C2: start() has not returned while a supervised task, a restarted one
\* included, is still running or in its cool-down.
C2_StartBlocksUntilSettled ==
    mainpc \in {"start_returned", "stopping", "returned"}
        => \A w \in Workers, n \in TaskIds : tstate[w][n] \notin {"running", "cooldown"}

\* C3: once stop() has set running to false, no invocation of a worker's
\* run() begins any more.
C3_NoRunAfterStop ==
    [][StopHasRun => \A w \in Workers, n \in TaskIds : Started(w, n)' => Started(w, n)]_vars

\* C3 witness: a restarted task was cancelled by stop() before its first step
\* and ended without ever invoking run().
C3_Witness ==
    \E w \in Workers, n \in TaskIds :
        n > 0 /\ tstate[w][n] = "cancelled" /\ exit[w][n] = "none" /\ StopHasRun

\* C4: over all invocations of stop(), none raises, no task is cancelled more
\* than once and each worker's stop procedure is called at most once.
C4_StopIdempotent ==
    /\ \A s \in StopIds : stoppc[s] # "raised"
    /\ \A w \in Workers, n \in TaskIds : cancelReq[w][n] <= 1
    /\ \A w \in Workers : StopCallers(w) <= 1

\* C5: at most one execution of run() per worker is in progress.
C5_OneActiveRun ==
    \A w \in Workers : Cardinality({n \in TaskIds : tstate[w][n] = "running"}) <= 1

\* C5 witness: the restarted task runs the worker after the crashed one finished.
C5_Witness ==
    \E w \in Workers :
        tstate[w][0] = "done" /\ exit[w][0] = "fault" /\ tstate[w][1] = "running"

\* C6: with both workers enabled, no termination signal, a start() that did
\* not raise and no worker that ended by itself, crashes and restarts never get a task cancelled nor a
\* stop procedure called.
C6_SiblingIsolation ==
    (/\ Signals = 0
     /\ startExc = "none"
     /\ \A w \in Workers : enable[w] /\ token[w]
     /\ \A w \in Workers, n \in TaskIds : exit[w][n] # "return")
    => /\ \A w \in Workers, n \in TaskIds : cancelReq[w][n] = 0 /\ tstate[w][n] # "cancelled"
       /\ \A w \in Workers : StopCallers(w) = 0

\* C7: when stop_telegram_bot raises inside a stop() invocation, that
\* invocation still calls stop_discord_bot and does not raise.
C7_StopFaultIsolated ==
    \A s \in StopIds :
        /\ stoppc[s] # "raised"
        /\ stopFault[s]["telegram"] =>
             (stopCalls[s]["discord"] = 1 /\ stoppc[s] \in {"in_discord", "done"})

\* C7 witness: a stop() invocation completed although stop_telegram_bot raised.
C7_Witness ==
    \E s \in StopIds : stopFault[s]["telegram"] /\ stoppc[s] = "done"

\* C8: start() creates exactly one task for each worker whose flag and token
\* are both set and none for the others; unless an exception leaves it, it
\* blocks in gather exactly when there is such a worker and otherwise returns
\* at once.
C8_StartSpawnsEnabled ==
    [][(mainpc = "init" /\ mainpc' # "init") =>
        /\ \A w \in Workers :
              NumTasks(w)' = IF enable[w] /\ token[w] THEN 1 ELSE 0
        /\ startExc' = "none" =>
             /\ (mainpc' = "gather") <=> (\E w \in Workers : enable[w] /\ token[w])
             /\ (mainpc' = "start_returned") <=>
                    (\A w \in Workers : ~(enable[w] /\ token[w]))]_vars

\* C8 witness: start() is blocked with a task for the one enabled worker only.
C8_Witness ==
    /\ mainpc = "gather"
    /\ \E w \in Workers :
        /\ enable[w] /\ token[w] /\ NumTasks(w) = 1
        /\ \A v \in Workers \ {w} : enable[v] /\ ~token[v] /\ NumTasks(v) = 0

\* C9: a task cancelled while suspended in run() or in the cool-down sleep can
\* only end cancelled, spawns no restart, and a cancelled task stays cancelled.
C9_CancelledTaskEnds ==
    [][\A w \in Workers, n \in TaskIds :
        /\ (cancelReq[w][n] > 0 /\ tstate[w][n] \in {"running", "cooldown"}) =>
              /\ tstate'[w][n] \in {tstate[w][n], "cancelled"}
              /\ \A m \in TaskIds : m > n => tstate'[w][m] = "none"
        /\ tstate[w][n] = "cancelled" => tstate'[w][n] = "cancelled"]_vars

\* C9 witness: one task was cancelled inside run() and one during its cool-down.
C9_Witness ==
    /\ \E w \in Workers, n \in TaskIds : tstate[w][n] = "cancelled" /\ exit[w][n] = "cancel"
    /\ \E w \in Workers, n \in TaskIds : tstate[w][n] = "cancelled" /\ exit[w][n] = "fault"

\* C10: while no termination signal is delivered, every crash of run() is
\* followed by a restart: the cool-down is not cancelled and the next task is
\* created and left to start.
C10_RestartsUnbounded ==
    Signals = 0 =>
        \A w \in Workers, n \in TaskIds :
            exit[w][n] = "fault" =>
                /\ cancelReq[w][n] = 0
                /\ tstate[w][n] \in {"cooldown", "done"}
                /\ tstate[w][n] = "done" =>
                      (tstate[w][n + 1] # "none" /\ cancelReq[w][n + 1] = 0)

\* C11: a run() that returns normally while no stop() has run is followed by
\* the restart policy: the task waits in the cool-down or has spawned the
\* next task.
C11_ReturnRestarts ==
    \A w \in Workers, n \in TaskIds :
        (exit[w][n] = "return" /\ ~StopHasRun /\ n < MaxAttempt)
            => (tstate[w][n] = "cooldown" \/ tstate[w][n + 1] # "none")

\* C12: with one worker enabled, the other not, and a start() that did not
\* raise, a stop() invocation that completed has called the stop procedure of
\* the enabled worker once, and no invocation calls the stop procedure of the
\* other worker nor cancels a task of it.
C12_DisabledUntouched ==
    (/\ startExc = "none"
     /\ \E w \in Workers : enable[w] /\ token[w]
     /\ \E w \in Workers : ~(enable[w] /\ token[w]))
    => \A s \in StopIds, w \in Workers :
        IF enable[w] /\ token[w]
        THEN stoppc[s] = "done" => stopCalls[s][w] = 1
        ELSE stopCalls[s][w] = 0 /\ \A n \in TaskIds : cancelReq[w][n] = 0

\* C13: when main() has finished, its stop() has completed and has called the
\* stop procedure of every enabled worker, however start() ended.
C13_MainAlwaysStops ==
    mainpc = "returned" =>
        /\ stoppc[MainStop] = "done"
        /\ \A w \in Workers : (enable[w] /\ token[w]) => stopCalls[MainStop][w] >= 1

\* C13 witness: main() finished after start() was left by a KeyboardInterrupt.
C13_Witness ==
    /\ mainpc = "returned"
    /\ startExc = "KeyboardInterrupt"
    /\ \E w \in Workers : enable[w] /\ token[w] /\ stopCalls[MainStop][w] = 1

\* C14: with a worker enabled, no termination signal, a start() that did not
\* raise and no worker that ended by itself, running stays true, stop() is
\* not invoked and main() stays blocked in start(), whatever crashes.
C14_FaultNeverStops ==
    (/\ mainpc # "init"
     /\ Signals = 0
     /\ startExc = "none"
     /\ \E w \in Workers : enable[w] /\ token[w]
     /\ \A w \in Workers, n \in TaskIds : exit[w][n] # "return")
    => (running /\ ~StopHasRun /\ mainpc = "gather")

\* C15: when start() has returned because no worker is enabled, running is
\* false, no handler is installed, no task exists and both handles are empty.
C15_NoBotsNoEffect ==
    (mainpc = "start_returned" /\ \A w \in Workers : ~(enable[w] /\ token[w]))
    => /\ ~running
       /\ ~handlers
       /\ \A w \in Workers : bot_task[w] = NoTask /\ NumTasks(w) = 0

\* C16: once a termination signal was delivered, main() eventually finishes
\* and every supervised task is settled.
C16_ShutdownCompletes ==
    (Signals > 0) ~> (mainpc = "returned" /\ \A w \in Workers, n \in TaskIds : ~Live(w, n))

\* C16 witness: after a signal main() has finished and a task ended cancelled.
C16_Witness ==
    /\ Signals > 0
    /\ mainpc = "returned"
    /\ \A w \in Workers, n \in TaskIds : ~Live(w, n)
    /\ \E w \in Workers, n \in TaskIds : tstate[w][n] = "cancelled"

\* C17: when a stop() invocation has returned, every handle the supervisor
\* holds designates a task that is done or has its cancellation requested,
\* and the invocation has called the stop procedure of every started worker.
C17_StopDispatchesAll ==
    \A s \in StopIds :
        stoppc[s] = "done" =>
            \A w \in Workers :
                /\ bot_task[w] # NoTask =>
                      (~Live(w, bot_task[w]) \/ cancelReq[w][bot_task[w]] > 0)
                /\ NumTasks(w) > 0 => stopCalls[s][w] >= 1

\* C17 witness: stop() has returned while a cancelled task has not settled yet.
C17_Witness ==
    \E s \in StopIds, w \in Workers :
        /\ stoppc[s] = "done"
        /\ w = "discord"
        /\ bot_task[w] # NoTask
        /\ Live(w, bot_task[w])
        /\ cancelReq[w][bot_task[w]] > 0

\* C18: no fault of run() is raised out of start() into main(), and no task,
\* original or restarted, ends with the fault as its exception.
C18_FaultContained ==
    /\ startExc # "WorkerFault"
    /\ \A w \in Workers, n \in TaskIds : tstate[w][n] # "failed"

\* C18 witness: the original and the restarted task of a worker both crashed
\* and start() returned normally.
C18_Witness ==
    /\ mainpc \in {"stopping", "returned"}
    /\ startExc = "none"
    /\ \E w \in Workers : exit[w][0] = "fault" /\ exit[w][1] = "fault"

\* C19: whenever a task has a cancellation of stop() pending or a stop
\* procedure has been called, running is already false.
C19_RunningFalseFirst ==
    (\/ \E w \in Workers, n \in TaskIds : cancelReq[w][n] > 0
     \/ \E s \in StopIds, w \in Workers : stopCalls[s][w] > 0)
    => ~running

\* C19 witness: a task in its cool-down has its cancellation pending while
\* stop() is suspended in a stop procedure.
C19_Witness ==
    /\ ~running
    /\ \E s \in StopIds : stoppc[s] = "in_telegram"
    /\ \E w \in Workers, n \in TaskIds : tstate[w][n] = "cooldown" /\ cancelReq[w][n] > 0

\* C20: running is false initially, turns true only in start(), turns false
\* only when a stop() invocation begins, and is false ever after a stop().
C20_RunningLifecycle ==
    /\ running = FALSE
    /\ [][/\ (~running /\ running') => mainpc = "init"
          /\ (running /\ ~running') =>
                \E s \in StopIds : stoppc[s] \in {"idle", "created"}
                                   /\ stoppc'[s] = "in_telegram"
          /\ StopHasRun => ~running']_vars

\* C20 witness: main() has finished after a signal-handler stop() and its own
\* cleanup stop() both ran, and running is false.
C20_Witness ==
    /\ ~running
    /\ mainpc = "returned"
    /\ \E s \in StopIds : s # MainStop /\ stoppc[s] = "done"

\* C21: every task of a worker that is not done is the task its handle
\* designates, and once a stop() has begun every task that is not done has
\* that stop()'s cancellation pending: no task escapes it.
C21_HandleIsOnlyLiveTask ==
    /\ \A w \in Workers, n \in TaskIds : Live(w, n) => bot_task[w] = n
    /\ StopHasRun => \A w \in Workers, n \in TaskIds : Live(w, n) => cancelReq[w][n] > 0

\* C21 witness: a stop() ran right after a restart; the task just spawned has
\* not made its first step, is the handle and has the cancellation pending.
C21_Witness ==
    \E w \in Workers, n \in TaskIds :
        /\ n > 0
        /\ bot_task[w] = n
        /\ tstate[w][n] = "created"
        /\ tstate[w][n - 1] = "done"
        /\ cancelReq[w][n] > 0

\* C22: while a task of one worker is in a cool-down that has not elapsed,
\* every step the other worker's task is ready for can be taken (its first
\* step, a crash of run(), the restart after its own cool-down), and a step
\* of the other worker's task leaves the sleeping task and its timer alone.
C22_CooldownSuspends ==
    /\ [](\A w \in Workers, n \in TaskIds :
            (mainpc \in {"gather", "stopping"} /\ Sleeping(w, n) /\ sleepLeft[w][n] > 0) =>
                \A v \in Workers \ {w}, m \in TaskIds :
                    /\ (tstate[v][m] = "created" /\ cancelReq[v][m] = 0)
                          => ENABLED RunBotStart(v, m)
                    /\ (tstate[v][m] = "running" /\ cancelReq[v][m] = 0 /\ m < MaxAttempt)
                          => ENABLED RunBotCrash(v, m)
                    /\ (Sleeping(v, m) /\ sleepLeft[v][m] = 0)
                          => ENABLED RunBotWake(v, m))
    /\ [][\A w \in Workers, n \in TaskIds :
            (/\ Sleeping(w, n)
             /\ running' = running /\ cancelReq' = cancelReq
             /\ \E v \in Workers \ {w} : tstate'[v] # tstate[v])
            => (tstate'[w] = tstate[w] /\ sleepLeft'[w] = sleepLeft[w])]_vars

\* C22 witness: one worker's task is in a cool-down that has not elapsed
\* while the other worker crashed, sat out its own 30 units and runs again.
C22_Witness ==
    \E w \in Workers, n \in TaskIds :
        /\ Sleeping(w, n)
        /\ sleepLeft[w][n] > 0
        /\ \E v \in Workers \ {w} :
            /\ exit[v][0] = "fault"
            /\ sinceCrash[v][0] = RestartDelay
            /\ tstate[v][1] = "running"

\* C23: a worker whose flag is set but whose token is missing never has a
\* task or a handle; start() gives the other worker one task exactly when
\* that worker's flag and token are set, and returns at once without an
\* exception exactly when they are not, as with the flag unset.
C23_FlagWithoutToken ==
    /\ \A w \in Workers :
          (enable[w] /\ ~token[w]) => (bot_task[w] = NoTask /\ NumTasks(w) = 0)
    /\ [][(mainpc = "init" /\ mainpc' # "init") =>
            \A w \in Workers : (enable[w] /\ ~token[w]) =>
                \A v \in Workers \ {w} :
                    /\ NumTasks(v)' = IF enable[v] /\ token[v] THEN 1 ELSE 0
                    /\ (mainpc' = "start_returned" /\ startExc' = "none")
                          <=> ~(enable[v] /\ token[v])]_vars

\* C23 witness: the only worker with its flag set has no token; start() has
\* returned at once, without a task and without an exception.
C23_Witness ==
    /\ mainpc = "start_returned"
    /\ startExc = "none"
    /\ \E w \in Workers :
        /\ enable[w] /\ ~token[w] /\ NumTasks(w) = 0 /\ bot_task[w] = NoTask
        /\ \A v \in Workers \ {w} : ~enable[v] /\ NumTasks(v) = 0

\* C24: when run() ends with an exception while running is false, the task
\* is done at once, without a sleep and without a successor; and a task in
\* its cool-down while running is false never gets a successor.
C24_NoRestartOnceStopped ==
    [][\A w \in Workers, n \in TaskIds :
        /\ (~running /\ exit[w][n] = "none" /\ exit'[w][n] = "fault") =>
              /\ tstate'[w][n] = "done"
              /\ sleepLeft'[w][n] = 0
              /\ \A m \in TaskIds : m > n => tstate'[w][m] = "none"
        /\ (~running /\ tstate[w][n] = "cooldown") =>
              /\ tstate'[w][n] \in {"cooldown", "cancelled", "done"}
              /\ \A m \in TaskIds : m > n => tstate'[w][m] = "none"]_vars

\* C24 witness: after a stop(), one worker's run() failed while it was being
\* cancelled and its task is done without successor; the other worker's task
\* was in its cool-down when running turned false and ended without restart.
C24_Witness ==
    /\ ~running /\ StopHasRun
    /\ \E w \in Workers, n \in TaskIds :
        /\ exit[w][n] = "fault" /\ tstate[w][n] = "done"
        /\ \A m \in TaskIds : m > n => tstate[w][m] = "none"
    /\ \E v \in Workers, k \in TaskIds :
        /\ exit[v][k] = "fault" /\ tstate[v][k] = "cancelled"
        /\ \A m \in TaskIds : m > k => tstate[v][m] = "none"

\* C25: get_primary_cardano_service returns the Blockfrost service whenever
\* get_blockfrost_service succeeds, the Koios service only when
\* get_blockfrost_service failed with an HTTP 503 and get_koios_service
\* succeeds, and raises HTTP 503 "No Cardano service available" exactly when
\* both fail.
C25_PrimaryPrefersBlockfrost ==
    depCall = "primary" =>
        /\ get_blockfrost_service.exc = "none" => depResult = Returns("blockfrost")
        /\ depResult = Returns("koios") <=>
              /\ get_blockfrost_service.exc = "HTTPException"
              /\ get_blockfrost_service.status = 503
              /\ get_koios_service.exc = "none"
        /\ depResult = Raises("HTTPException", 503, "No Cardano service available") <=>
              (get_blockfrost_service.exc # "none" /\ get_koios_service.exc # "none")
        /\ depResult.exc = "none" => depResult.service \in CardanoServices

\* C25 witness: the Blockfrost constructor raised, Koios came up with a
\* failed (but not raising) health check, and the provider returned Koios.
C25_Witness ==
    /\ depCall = "primary"
    /\ svcCtor["blockfrost"] = "raise"
    /\ svcCtor["koios"] = "ok" /\ svcHealth["koios"] = "false"
    /\ depResult = Returns("koios")

\* C26: with the API key not set, get_openai_service (get_claude_service)
\* raises HTTP 503 with detail "OpenAI service not configured" ("Claude
\* service not configured"), never the "... service unavailable" of a failed
\* construction.
C26_NotConfiguredDetail ==
    \A l \in LLMServices :
        (depCall = l /\ ~apiKey[l]) =>
            /\ depResult.exc = "HTTPException"
            /\ depResult.status = 503
            /\ depResult.detail = NotConfigured[l]
====
